---- MODULE Spec2Model ----
(***************************************************************************)
(* feedly/aggregators/base.py: BaseAggregator (aggregate, merge,           *)
(* group_activities, get_group, rank) and ModulusAggregator.               *)
(*                                                                         *)
(* Aggregated activities (buckets) are objects with identity: they live in *)
(* `heap`, a sequence of records, and a reference is an index into it.     *)
(* Lists and dicts of the program hold references.  Activities are         *)
(* immutable values and are represented by their object_id.               *)
(***************************************************************************)
EXTENDS Integers, Sequences, FiniteSets

\* ---- bounds of the model --------------------------------------------
MaxLen == 4      \* longest activity list handed to aggregate / group_activities
MaxId == 4       \* activity object_ids are 1..MaxId
MaxOld == 2      \* longest `aggregated` list handed to merge / rank
MaxNew == 2      \* longest `new_aggregated` list handed to merge
MaxActs == 1     \* most activities in a bucket handed to merge / rank

\* ---- program constants ----------------------------------------------
Modulus == 3

VARIABLES op, cls, pc, heap, activities, activity, aggregated, new_aggregated,
          aggregate_dict, aggregated_activities, current_activities_dict,
          new, changed, i, ret, error

vars == <<op, cls, pc, heap, activities, activity, aggregated, new_aggregated,
          aggregate_dict, aggregated_activities, current_activities_dict,
          new, changed, i, ret, error>>

\* ---- values -----------------------------------------------------------
ActivityIds == 1..MaxId
Groups == 0..(Modulus - 1)
Classes == {"BaseAggregator", "ModulusAggregator"}

NoError == [type |-> "None", msg |-> ""]
\* raise ValueError('not implemented')
NotImplementedRaise == [type |-> "ValueError", msg |-> "not implemented"]
\* max() of an empty list
EmptyMaxRaise == [type |-> "ValueError", msg |-> "max() arg is an empty sequence"]

EmptyDict == [g \in {} |-> 0]

SeqsUpTo(S, n) == UNION {[1..k -> S] : k \in 0..n}

Range(s) == {s[k] : k \in DOMAIN s}

\* ---- AggregatedActivity (feedly.activity) -------------------------------
\* AggregatedActivity(group): a fresh bucket without activities
AggregatedActivity(group) == [group |-> group, activities |-> <<>>]

\* bucket.append(activity), on the object r of heap h
BucketAppend(h, r, a) ==
    [h EXCEPT ![r] = [@ EXCEPT !.activities = Append(@, a)]]

\* for activity in acts: bucket.append(activity)
RECURSIVE AppendAll(_, _, _)
AppendAll(h, r, acts) ==
    IF acts = <<>> THEN h
    ELSE AppendAll(BucketAppend(h, r, Head(acts)), r, Tail(acts))

\* a copy that starts a new bucket of the group and leaves the activities behind
deepcopy_fresh(h, r) ==
    [heap |-> Append(h, AggregatedActivity(h[r].group)), ref |-> Len(h) + 1]

\* a deep copy that aliases its argument instead of copying it
deepcopy_alias(h, r) == [heap |-> h, ref |-> r]

\* copy.deepcopy(bucket): a new object with the same group and activities
deepcopy(h, r) == [heap |-> Append(h, h[r]), ref |-> Len(h) + 1]


\* ---- BaseAggregator / ModulusAggregator strategies --------------------
Returned(v) == [exc |-> NoError, val |-> v]
Raised(e) == [exc |-> e, val |-> <<>>]

\* a base get_group that answers with the modulus rule instead of raising
BaseAggregator_get_group_unguarded(a) == Returned(a % Modulus)

\* BaseAggregator.get_group: raise ValueError('not implemented')
BaseAggregator_get_group(a) == Raised(NotImplementedRaise)

\* ModulusAggregator.get_group: activity.object_id % self.modulus
ModulusAggregator_get_group(a) == Returned(a % Modulus)

\* self.get_group(activity), dispatched on the class of self
get_group(c, a) ==
    IF c = "ModulusAggregator" THEN ModulusAggregator_get_group(a)
    ELSE BaseAggregator_get_group(a)

SeqMax(s) == CHOOSE m \in Range(s) : \A x \in Range(s) : x <= m
SeqMin(s) == CHOOSE m \in Range(s) : \A x \in Range(s) : m <= x

\* a sort key that takes the smallest identifier
sort_key_min(h, r) == SeqMin(h[r].activities)

\* ModulusAggregator.rank.sort_key, for a bucket with activities
sort_key(h, r) == SeqMax(h[r].activities)

\* list.sort(key=sort_key) is stable: insert r behind every element whose
\* key is not larger
RECURSIVE InsertByKey(_, _, _)
InsertByKey(h, sorted, r) ==
    IF sorted = <<>> THEN <<r>>
    ELSE IF sort_key(h, Head(sorted)) <= sort_key(h, r)
         THEN <<Head(sorted)>> \o InsertByKey(h, Tail(sorted), r)
         ELSE <<r>> \o sorted

RECURSIVE SortByKey(_, _)
SortByKey(h, list) ==
    IF list = <<>> THEN <<>>
    ELSE InsertByKey(h, SortByKey(h, SubSeq(list, 1, Len(list) - 1)),
                     list[Len(list)])

\* BaseAggregator.rank: raise ValueError('not implemented')
BaseAggregator_rank(h, list) == Raised(NotImplementedRaise)

\* ModulusAggregator.rank: the keys of all buckets are computed first (max of
\* an empty list raises), then the list is sorted by them
ModulusAggregator_rank(h, list) ==
    IF \E k \in DOMAIN list : h[list[k]].activities = <<>>
    THEN Raised(EmptyMaxRaise)
    ELSE Returned(SortByKey(h, list))

\* self.rank(aggregated_activities), dispatched on the class of self
rank(c, h, list) ==
    IF c = "ModulusAggregator" THEN ModulusAggregator_rank(h, list)
    ELSE BaseAggregator_rank(h, list)

\* ---- dict helpers ----------------------------------------------------
\* d[g] = r
DictSet(d, g, r) == [x \in DOMAIN d \cup {g} |-> IF x = g THEN r ELSE d[x]]

\* a dict built from pairs in which the first pair of a key wins
RECURSIVE DictFirstWins(_, _)
DictFirstWins(h, list) ==
    IF list = <<>> THEN EmptyDict
    ELSE LET d == DictFirstWins(h, Tail(list))
         IN  DictSet(d, h[Head(list)].group, Head(list))

\* a dict built from all buckets of the list but the last
RECURSIVE DictWithoutLast(_, _)
DictWithoutLast(h, list) ==
    IF Len(list) <= 1 THEN EmptyDict
    ELSE LET d == DictWithoutLast(h, SubSeq(list, 1, Len(list) - 1))
         IN  DictSet(d, h[list[Len(list) - 1]].group, list[Len(list) - 1])

\* dict([(a.group, a) for a in list]): pairs are stored in the list's order,
\* a later pair of a key replaces the earlier one
RECURSIVE DictFromBuckets(_, _)
DictFromBuckets(h, list) ==
    IF list = <<>> THEN EmptyDict
    ELSE LET d == DictFromBuckets(h, SubSeq(list, 1, Len(list) - 1))
         IN  DictSet(d, h[list[Len(list)]].group, list[Len(list)])

\* d.values(): the values in an order the dict chooses
DictValues(d) ==
    {s \in [1..Cardinality(DOMAIN d) -> Range(d)] : Range(s) = Range(d)}


\* ---- inputs -----------------------------------------------------------
\* The buckets handed to merge and rank are distinct objects; merge and rank
\* never look into an activity except for its object_id, so the activities of
\* the r-th bucket get the identifiers (r-1)*MaxActs+1 .. (r-1)*MaxActs+n.
BucketShapes == [group : Groups, n : 0..MaxActs]

InputBucket(r, shape) ==
    [group |-> shape.group,
     activities |-> [k \in 1..shape.n |-> (r - 1) * MaxActs + k]]

InputHeap(shapes) == [r \in 1..Len(shapes) |-> InputBucket(r, shapes[r])]

InitGetGroup ==
    /\ op = "get_group" /\ pc = "get_group"
    /\ cls \in Classes
    /\ activity \in ActivityIds
    /\ heap = <<>> /\ activities = <<>>
    /\ aggregated = <<>> /\ new_aggregated = <<>>
    /\ aggregate_dict = EmptyDict /\ aggregated_activities = <<>>
    /\ current_activities_dict = EmptyDict
    /\ new = <<>> /\ changed = <<>> /\ i = 1
    /\ ret = <<>> /\ error = NoError

InitGroup ==
    /\ op \in {"aggregate", "group_activities"} /\ pc = "group_loop"
    /\ cls \in Classes
    /\ activities \in SeqsUpTo(ActivityIds, MaxLen)
    /\ heap = <<>> /\ activity = 0
    /\ aggregated = <<>> /\ new_aggregated = <<>>
    /\ aggregate_dict = EmptyDict /\ aggregated_activities = <<>>
    /\ current_activities_dict = EmptyDict
    /\ new = <<>> /\ changed = <<>> /\ i = 1
    /\ ret = <<>> /\ error = NoError

InitRank ==
    /\ op = "rank" /\ pc = "rank"
    /\ cls \in Classes
    /\ \E shapes \in SeqsUpTo(BucketShapes, MaxOld) :
          /\ heap = InputHeap(shapes)
          /\ aggregated_activities = [k \in 1..Len(shapes) |-> k]
    /\ activities = <<>> /\ activity = 0
    /\ aggregated = <<>> /\ new_aggregated = <<>>
    /\ aggregate_dict = EmptyDict
    /\ current_activities_dict = EmptyDict
    /\ new = <<>> /\ changed = <<>> /\ i = 1
    /\ ret = <<>> /\ error = NoError

InitMerge ==
    /\ op = "merge" /\ pc = "merge"
    /\ cls = "BaseAggregator"
    /\ \E old \in SeqsUpTo(BucketShapes, MaxOld),
          fresh \in SeqsUpTo(BucketShapes, MaxNew) :
          /\ heap = InputHeap(old \o fresh)
          /\ aggregated = [k \in 1..Len(old) |-> k]
          /\ new_aggregated = [k \in 1..Len(fresh) |-> Len(old) + k]
    /\ activities = <<>> /\ activity = 0
    /\ aggregate_dict = EmptyDict /\ aggregated_activities = <<>>
    /\ current_activities_dict = EmptyDict
    /\ new = <<>> /\ changed = <<>> /\ i = 1
    /\ ret = <<>> /\ error = NoError

Init == InitGetGroup \/ InitGroup \/ InitRank \/ InitMerge


\* ---- BaseAggregator.get_group / ModulusAggregator.get_group, called alone --
GetGroupCall ==
    /\ pc = "get_group"
    /\ LET r == get_group(cls, activity)
       IN  /\ error' = r.exc
           /\ ret' = r.val
    /\ pc' = "done"
    /\ UNCHANGED <<op, cls, heap, activities, activity, aggregated,
                   new_aggregated, aggregate_dict, aggregated_activities,
                   current_activities_dict, new, changed, i>>

\* ---- BaseAggregator.group_activities ------------------------------------
\* the activities visited from the last to the first
ActivityAtReversed(k) == activities[Len(activities) + 1 - k]

\* for activity in activities: the k-th activity visited
ActivityAt(k) == activities[k]

\* a test that takes every group for an unseen one
NeverInAggregateDict(g) == FALSE

\* group in aggregate_dict
InAggregateDict(g) == g \in DOMAIN aggregate_dict

\* get_group raises: the exception leaves group_activities (and aggregate)
GroupActivitiesRaise ==
    /\ pc = "group_loop"
    /\ i <= Len(activities)
    /\ LET g == get_group(cls, ActivityAt(i))
       IN  /\ g.exc # NoError
           /\ error' = g.exc
    /\ pc' = "done"
    /\ UNCHANGED <<op, cls, heap, activities, activity, aggregated,
                   new_aggregated, aggregate_dict, aggregated_activities,
                   current_activities_dict, new, changed, i, ret>>

\* the group is not in aggregate_dict: a bucket is created, stored under the
\* group, and the activity is appended to it
GroupActivitiesNewGroup ==
    /\ pc = "group_loop"
    /\ i <= Len(activities)
    /\ LET a == ActivityAt(i)
           g == get_group(cls, a)
           r == Len(heap) + 1
       IN  /\ g.exc = NoError
           /\ ~InAggregateDict(g.val)
           /\ heap' = BucketAppend(Append(heap, AggregatedActivity(g.val)), r, a)
           /\ aggregate_dict' = DictSet(aggregate_dict, g.val, r)
    /\ i' = i + 1
    /\ UNCHANGED <<op, cls, pc, activities, activity, aggregated,
                   new_aggregated, aggregated_activities,
                   current_activities_dict, new, changed, ret, error>>

\* the group is in aggregate_dict: the activity is appended to its bucket
GroupActivitiesSeenGroup ==
    /\ pc = "group_loop"
    /\ i <= Len(activities)
    /\ LET a == ActivityAt(i)
           g == get_group(cls, a)
       IN  /\ g.exc = NoError
           /\ InAggregateDict(g.val)
           /\ heap' = BucketAppend(heap, aggregate_dict[g.val], a)
    /\ i' = i + 1
    /\ UNCHANGED <<op, cls, pc, activities, activity, aggregated,
                   new_aggregated, aggregate_dict, aggregated_activities,
                   current_activities_dict, new, changed, ret, error>>

\* return aggregate_dict: to the caller, or to aggregate
GroupActivitiesReturn ==
    /\ pc = "group_loop"
    /\ i > Len(activities)
    /\ IF op = "group_activities"
       THEN pc' = "done" /\ ret' = aggregate_dict
       ELSE pc' = "values" /\ ret' = ret
    /\ UNCHANGED <<op, cls, heap, activities, activity, aggregated,
                   new_aggregated, aggregate_dict, aggregated_activities,
                   current_activities_dict, new, changed, i, error>>

\* ---- BaseAggregator.aggregate -----------------------------------------
\* aggregated_activities = aggregate_dict.values()
AggregateValues ==
    /\ pc = "values"
    /\ aggregated_activities' \in DictValues(aggregate_dict)
    /\ pc' = "rank"
    /\ UNCHANGED <<op, cls, heap, activities, activity, aggregated,
                   new_aggregated, aggregate_dict, current_activities_dict,
                   new, changed, i, ret, error>>

\* self.rank(aggregated_activities): the list is sorted in place and returned
Rank ==
    /\ pc = "rank"
    /\ LET r == rank(cls, heap, aggregated_activities)
       IN  IF r.exc # NoError
           THEN /\ error' = r.exc
                /\ UNCHANGED <<aggregated_activities, ret>>
           ELSE /\ aggregated_activities' = r.val
                /\ ret' = r.val
                /\ error' = error
    /\ pc' = "done"
    /\ UNCHANGED <<op, cls, heap, activities, activity, aggregated,
                   new_aggregated, aggregate_dict, current_activities_dict,
                   new, changed, i>>

\* ---- BaseAggregator.merge ---------------------------------------------
\* a membership test that never finds the group
NeverInCurrentDict(g) == FALSE

\* aggregated.group in current_activities_dict
InCurrentDict(g) == g \in DOMAIN current_activities_dict

\* a result whose third component lists the old buckets without a new one
MergeResultWithRemoved(n, c) ==
    <<n, c, SelectSeq(aggregated,
                      LAMBDA r : \A k \in DOMAIN new_aggregated :
                                    heap[new_aggregated[k]].group # heap[r].group)>>

\* return new, changed, []
MergeResult(n, c) == <<n, c, <<>>>>

\* current_activities_dict = dict(...); new = []; changed = []
MergeStart ==
    /\ pc = "merge"
    /\ current_activities_dict' = DictFromBuckets(heap, aggregated)
    /\ new' = <<>>
    /\ changed' = <<>>
    /\ i' = 1
    /\ pc' = "merge_loop"
    /\ UNCHANGED <<op, cls, heap, activities, activity, aggregated,
                   new_aggregated, aggregate_dict, aggregated_activities,
                   ret, error>>

\* the bucket's group is not in current_activities_dict: new.append(bucket)
MergeNew ==
    /\ pc = "merge_loop"
    /\ i <= Len(new_aggregated)
    /\ LET b == new_aggregated[i]
       IN  /\ ~InCurrentDict(heap[b].group)
           /\ new' = Append(new, b)
    /\ i' = i + 1
    /\ UNCHANGED <<op, cls, pc, heap, activities, activity, aggregated,
                   new_aggregated, aggregate_dict, aggregated_activities,
                   current_activities_dict, changed, ret, error>>

\* the group is there: the current bucket is deep-copied, the bucket's
\* activities are appended to the copy and (current, copy) joins changed
MergeChanged ==
    /\ pc = "merge_loop"
    /\ i <= Len(new_aggregated)
    /\ LET b == new_aggregated[i]
       IN  /\ InCurrentDict(heap[b].group)
           /\ LET current_aggregated == current_activities_dict[heap[b].group]
                  copy == deepcopy(heap, current_aggregated)
              IN  /\ heap' = AppendAll(copy.heap, copy.ref, heap[b].activities)
                  /\ changed' = Append(changed, <<current_aggregated, copy.ref>>)
    /\ i' = i + 1
    /\ UNCHANGED <<op, cls, pc, activities, activity, aggregated,
                   new_aggregated, aggregate_dict, aggregated_activities,
                   current_activities_dict, new, ret, error>>

MergeReturn ==
    /\ pc = "merge_loop"
    /\ i > Len(new_aggregated)
    /\ ret' = MergeResult(new, changed)
    /\ pc' = "done"
    /\ UNCHANGED <<op, cls, heap, activities, activity, aggregated,
                   new_aggregated, aggregate_dict, aggregated_activities,
                   current_activities_dict, new, changed, i, error>>

Next ==
    \/ GetGroupCall
    \/ GroupActivitiesRaise
    \/ GroupActivitiesNewGroup
    \/ GroupActivitiesSeenGroup
    \/ GroupActivitiesReturn
    \/ AggregateValues
    \/ Rank
    \/ MergeStart
    \/ MergeNew
    \/ MergeChanged
    \/ MergeReturn

Spec == Init /\ [][Next]_vars


\* ======================= properties ====================================
Done(o) == pc = "done" /\ op = o

Count(x, s) == Cardinality({k \in DOMAIN s : s[k] = x})

OldGroups == {heap[aggregated[k]].group : k \in DOMAIN aggregated}

\* the buckets of new_aggregated whose group is (not) the group of an old bucket
PresentInOld == SelectSeq(new_aggregated, LAMBDA b : heap[b].group \in OldGroups)
AbsentFromOld == SelectSeq(new_aggregated, LAMBDA b : heap[b].group \notin OldGroups)

\* the last bucket of `aggregated` with group g
LastOld(g) ==
    aggregated[CHOOSE k \in DOMAIN aggregated :
                  /\ heap[aggregated[k]].group = g
                  /\ \A j \in DOMAIN aggregated :
                        heap[aggregated[j]].group = g => j <= k]

\* C1 (merge non-mutation): no step of merge changes the group or the
\* activities of a bucket of `aggregated`, and in every pair of `changed` the
\* second element is another object than the first.
MergeNonMutation ==
    [][ /\ \A k \in DOMAIN aggregated :
              heap'[aggregated[k]] = heap[aggregated[k]]
        /\ \A k \in DOMAIN changed' : changed'[k][1] # changed'[k][2] ]_vars

\* merge returned a pair whose merged bucket got activities appended
MergeNonMutationWitness ==
    /\ Done("merge")
    /\ \E k \in DOMAIN ret[2] :
          Len(heap[ret[2][k][2]].activities) > Len(heap[ret[2][k][1]].activities)

\* C2 (merge append-only): the k-th pair (o, merged) of changed_pairs belongs
\* to the k-th bucket b of new whose group is in old: merged has o's group,
\* which is b's, and its activities are o's followed by b's.
MergeAppendOnly ==
    Done("merge") =>
        /\ Len(ret[2]) = Len(PresentInOld)
        /\ \A k \in DOMAIN ret[2] :
              LET o == heap[ret[2][k][1]]
                  merged == heap[ret[2][k][2]]
                  b == heap[PresentInOld[k]]
              IN  /\ merged.group = o.group
                  /\ b.group = o.group
                  /\ merged.activities = o.activities \o b.activities

\* the scenario old = [a:[A1]], new = [a:[A2], b:[A3]]
MergeAppendOnlyWitness ==
    /\ Done("merge")
    /\ Len(aggregated) = 1 /\ Len(new_aggregated) = 2
    /\ Len(heap[aggregated[1]].activities) = 1
    /\ heap[new_aggregated[1]].group = heap[aggregated[1]].group
    /\ heap[new_aggregated[2]].group # heap[aggregated[1]].group
    /\ Len(heap[new_aggregated[1]].activities) = 1
    /\ Len(ret[2]) = 1
    /\ heap[ret[2][1][2]].activities =
          heap[aggregated[1]].activities \o heap[new_aggregated[1]].activities


\* the number of buckets among the first j of new_aggregated whose group is in old
PresentUpTo(j) ==
    Cardinality({k \in 1..j : heap[new_aggregated[k]].group \in OldGroups})

\* C3 as stated (merge totality): every bucket of new is itself in new_buckets
\* or is itself (the same object, or a bucket of the same group and
\* activities) the second element of a pair of changed_pairs, and not both.
MergeTotalityAsStated ==
    Done("merge") =>
        \A j \in DOMAIN new_aggregated :
            LET b == new_aggregated[j]
                inNew == \E k \in DOMAIN ret[1] : ret[1][k] = b
                inChanged == \E k \in DOMAIN ret[2] :
                                \/ ret[2][k][2] = b
                                \/ heap[ret[2][k][2]] = heap[b]
            IN  (inNew /\ ~inChanged) \/ (~inNew /\ inChanged)

\* C3 as amended: every bucket b of new is accounted for exactly once.  If its
\* group is in no old bucket, b itself is in new_buckets once and is the source
\* of no pair; otherwise b is not in new_buckets and is the source of one pair
\* of changed_pairs, whose second element is not b but a new object holding
\* the matching old bucket's activities followed by b's.
MergeTotality ==
    Done("merge") =>
        /\ Len(ret[1]) + Len(ret[2]) = Len(new_aggregated)
        /\ \A j \in DOMAIN new_aggregated :
              LET b == new_aggregated[j]
              IN  IF heap[b].group \notin OldGroups
                  THEN /\ Count(b, ret[1]) = 1
                       /\ ret[1][j - PresentUpTo(j)] = b
                  ELSE /\ Count(b, ret[1]) = 0
                       /\ PresentUpTo(j) \in DOMAIN ret[2]
                       /\ LET pair == ret[2][PresentUpTo(j)]
                          IN  /\ pair[2] # b
                              /\ pair[2] \notin Range(new_aggregated)
                              /\ heap[pair[2]].group = heap[b].group
                              /\ heap[pair[2]].activities =
                                    heap[pair[1]].activities \o heap[b].activities

\* merge returned with a bucket of new in each of the two components, the
\* changed one merged into an old bucket that had activities
MergeTotalityWitness ==
    /\ Done("merge")
    /\ Len(ret[1]) = 1 /\ Len(ret[2]) = 1
    /\ heap[ret[2][1][1]].activities # <<>>

\* C4: new_buckets is the subsequence of new whose groups are in no old
\* bucket, in new's order; changed_pairs has one pair per bucket of new whose
\* group is in old, in new's order, each pair made of the old bucket stored
\* under that group and a bucket of that group.
MergeNewInOrder ==
    Done("merge") =>
        /\ ret[1] = AbsentFromOld
        /\ Len(ret[2]) = Len(PresentInOld)
        /\ \A k \in DOMAIN ret[2] :
              /\ ret[2][k][1] \in Range(aggregated)
              /\ heap[ret[2][k][1]].group = heap[PresentInOld[k]].group
              /\ heap[ret[2][k][2]].group = heap[PresentInOld[k]].group

\* merge returned two new buckets of different groups, or two pairs of
\* different groups
MergeNewInOrderWitness ==
    /\ Done("merge")
    /\ \/ /\ Len(ret[1]) = 2
          /\ heap[ret[1][1]].group # heap[ret[1][2]].group
       \/ /\ Len(ret[2]) = 2
          /\ heap[ret[2][1][1]].group # heap[ret[2][2][1]].group

MergeLastDuplicateWins ==
    Done("merge") =>
        /\ error = NoError
        /\ Len(ret[2]) = Len(PresentInOld)
        /\ \A k \in DOMAIN ret[2] :
              LET b == heap[PresentInOld[k]]
                  o == LastOld(b.group)
              IN  /\ ret[2][k][1] = o
                  /\ ret[2][k][2] # o
                  /\ heap[ret[2][k][2]] =
                        [group |-> heap[o].group,
                         activities |-> heap[o].activities \o b.activities]
        /\ \A j \in DOMAIN aggregated :
              (\E j2 \in DOMAIN aggregated :
                  j < j2 /\ heap[aggregated[j2]].group = heap[aggregated[j]].group)
              => /\ aggregated[j] \notin Range(ret[1])
                 /\ \A k \in DOMAIN ret[2] :
                       aggregated[j] # ret[2][k][1] /\ aggregated[j] # ret[2][k][2]
                 /\ aggregated[j] \notin Range(ret[3])

\* merge returned a pair for a group that two old buckets share
MergeLastDuplicateWinsWitness ==
    /\ Done("merge")
    /\ Len(aggregated) = 2
    /\ heap[aggregated[1]].group = heap[aggregated[2]].group
    /\ heap[aggregated[1]].activities # <<>>
    /\ \E k \in DOMAIN ret[2] : ret[2][k][1] = aggregated[2]


\* get_group of the class under call, for an activity it does not raise on
GroupOf(a) == get_group(cls, a).val

\* C5 (grouping completeness): group_activities returns one bucket per
\* distinct key of the input, each a different object stored under its own
\* group; every occurrence of an activity is in the bucket stored under
\* get_group(activity) and in no other; no bucket holds anything else.
GroupingCompleteness ==
    (Done("group_activities") /\ error = NoError) =>
        /\ DOMAIN ret = {GroupOf(activities[k]) : k \in DOMAIN activities}
        /\ \A g \in DOMAIN ret : heap[ret[g]].group = g
        /\ \A g1, g2 \in DOMAIN ret : g1 # g2 => ret[g1] # ret[g2]
        /\ \A g \in DOMAIN ret :
              /\ Range(heap[ret[g]].activities) \subseteq Range(activities)
              /\ \A x \in ActivityIds :
                    Count(x, heap[ret[g]].activities) =
                        IF GroupOf(x) = g THEN Count(x, activities) ELSE 0

\* group_activities returned two buckets, one of them with an activity that
\* occurs twice in the input
GroupingCompletenessWitness ==
    /\ Done("group_activities") /\ error = NoError
    /\ Cardinality(DOMAIN ret) >= 2
    /\ \E x \in ActivityIds : Count(x, activities) = 2
    /\ \E g \in DOMAIN ret : Len(heap[ret[g]].activities) >= 3

\* C6 (grouping order preservation): the activities of each bucket returned
\* by group_activities are the subsequence of the input whose group key is
\* the bucket's group.
GroupingOrderPreserved ==
    (Done("group_activities") /\ error = NoError) =>
        \A g \in DOMAIN ret :
            heap[ret[g]].activities =
                SelectSeq(activities, LAMBDA a : GroupOf(a) = g)

\* group_activities returned a bucket with two different activities, put in
\* between activities of another group
GroupingOrderPreservedWitness ==
    /\ Done("group_activities") /\ error = NoError
    /\ activities = <<4, 2, 1>>
    /\ heap[ret[1]].activities = <<4, 1>>

\* the call under C7: the abstract strategy of the base class is reached
AbstractCallDone ==
    /\ pc = "done"
    /\ cls = "BaseAggregator"
    /\ \/ op \in {"get_group", "rank"}
       \/ op \in {"aggregate", "group_activities"} /\ activities # <<>>

\* C7 as stated: BaseAggregator.get_group and BaseAggregator.rank, and
\* aggregate / group_activities of the base class on a non-empty input, fail
\* with a NotImplemented error.
AbstractRaisesNotImplementedError ==
    AbstractCallDone => error.type = "NotImplementedError"

\* C7 as amended: these calls fail with a ValueError whose message is
\* 'not implemented'.
AbstractRaisesValueError ==
    AbstractCallDone => error = NotImplementedRaise

\* aggregate of the base class failed on a non-empty input
AbstractRaisesValueErrorWitness ==
    /\ AbstractCallDone
    /\ op = "aggregate"
    /\ Len(activities) >= 2
    /\ error = NotImplementedRaise

\* C8: for the modulus strategy aggregate returns the buckets of
\* group_activities, each once and with the content grouping gave it, in an
\* order in which the largest activity identifier of a bucket never decreases.
ModulusAggregateRanked ==
    (Done("aggregate") /\ cls = "ModulusAggregator") =>
        /\ error = NoError
        /\ Len(ret) = Cardinality(DOMAIN aggregate_dict)
        /\ Range(ret) = Range(aggregate_dict)
        /\ \A g \in DOMAIN aggregate_dict :
              heap[aggregate_dict[g]] =
                  [group |-> g,
                   activities |-> SelectSeq(activities, LAMBDA a : a % Modulus = g)]
        /\ \A j, k \in DOMAIN ret :
              j < k => SeqMax(heap[ret[j]].activities)
                          <= SeqMax(heap[ret[k]].activities)

\* ids [1,2,3,4] with modulus 3 give [group 2 ([2]), group 0 ([3]), group 1 ([1,4])]
ModulusAggregateRankedWitness ==
    /\ Done("aggregate") /\ cls = "ModulusAggregator"
    /\ activities = <<1, 2, 3, 4>>
    /\ [k \in DOMAIN ret |-> heap[ret[k]]] =
          << [group |-> 2, activities |-> <<2>>],
             [group |-> 0, activities |-> <<3>>],
             [group |-> 1, activities |-> <<1, 4>>] >>

====
